---------------------------- MODULE Spec2Model ----------------------------
(***************************************************************************)
(* Budget-Analyzer (src/Code/main.py): the expense ingestion, date         *)
(* alignment and regex categorization engine.                              *)
(*                                                                         *)
(* Strings whose characters the program inspects (file names, "yyyy_mm"    *)
(* dates) are sequences of ASCII codes, so that the regular expression p,  *)
(* str.format and the lexicographic list.sort() are computed as Python     *)
(* computes them.  Labels, categories, regex sources and locations are     *)
(* only compared for equality (or looked up in the match table) and are    *)
(* TLA+ strings.  Amounts are integers (cents).                            *)
(***************************************************************************)
EXTENDS Integers, Sequences, FiniteSets, TLC

VARIABLES
    \* ---- AccountExpenseHistory.__init__ (one account under construction)
    listing,            \* os.listdir() of self.path: a set of file names
    statement,          \* which statement contents the files of the directory hold
    files,              \* self.files
    is_missing_data,    \* self.is_missing_data
    dates,              \* self.dates
    expenses,           \* self.expenses
    apc,                \* position in AccountExpenseHistory.__init__
    \* ---- ExpenseHistoryAnalyzer (the analyzer under construction)
    config,             \* the lines of config.txt, each split on tabs
    label,              \* self.label
    intersect_account_dates,
    accounts,           \* the **accounts, in keyword order
    regex_category_dict,\* insertion-ordered dict: sequence of <<regex, category>>
    category_limits,    \* self.category_limits: set of <<category, limit>>
    categories,         \* self.categories
    self_dates,         \* the analyzer's self.dates (the date axis)
    data,               \* self.data: one aggregate per categorized account
    pc,                 \* position in the run / in ExpenseHistoryAnalyzer.__init__
    n_analyzers,        \* analyzers constructed so far in this run
    \* ---- the log files
    regex_collisions,   \* regex_collisions.txt: [exists, lines]
    uncategorized       \* <label>_uncategorized_locations.txt, by label

account_vars == <<listing, statement, files, is_missing_data, dates, expenses, apc>>
analyzer_vars == <<config, label, intersect_account_dates, accounts,
                   regex_category_dict, category_limits, categories,
                   self_dates, data, pc, n_analyzers>>
analyzer_vars_but_pc == <<config, label, intersect_account_dates, accounts,
                          regex_category_dict, category_limits, categories,
                          self_dates, data, n_analyzers>>
file_vars == <<regex_collisions, uncategorized>>
vars == <<account_vars, analyzer_vars, file_vars>>

---------------------------------------------------------------------------
(* Bounds of the model *)

\* most files in one account's data directory (account construction)
MaxFiles == 3
\* most files in one account's data directory (date reconciliation)
MaxAxisFiles == 2
\* most accounts handed to one analyzer
MaxAccounts == 2
\* most lines of a config.txt
MaxLines == 2
\* most analyzers constructed in one run
MaxAnalyzers == 2

---------------------------------------------------------------------------
(* Strings as sequences of ASCII codes *)

IsDigit(c) == c \in 48..57          \* [0-9]
IsNonZeroDigit(c) == c \in 49..57   \* [1-9]

\* str(n) for n >= 0
RECURSIVE Digits(_)
Digits(n) == IF n < 10 THEN <<48 + n>> ELSE Digits(n \div 10) \o <<48 + (n % 10)>>

\* int(s) of a digit string
RECURSIVE ToInt(_)
ToInt(s) ==
    IF Len(s) = 0 THEN 0
    ELSE 10 * ToInt(SubSeq(s, 1, Len(s) - 1)) + (s[Len(s)] - 48)

\* Python's str < str: lexicographic by code point, a proper prefix first
StrLess(a, b) ==
    \E i \in 1..(Len(a) + 1) :
        /\ i <= Len(b)
        /\ \A j \in 1..(i - 1) : a[j] = b[j]
        /\ (i = Len(a) + 1 \/ a[i] < b[i])

\* list(S).sort() on a collection of distinct strings
RECURSIVE SortStrings(_)
SortStrings(S) ==
    IF S = {} THEN <<>>
    ELSE LET least == CHOOSE x \in S : \A y \in S : x = y \/ StrLess(x, y)
         IN  <<least>> \o SortStrings(S \ {least})

\* the file names of the model: "<y>_<m>.csv", the month zero-padded or not
DotCsv == <<46, 99, 115, 118>>
FileName(y, m, padded) ==
    Digits(y) \o <<95>> \o (IF padded /\ m < 10 THEN <<48>> ELSE <<>>) \o Digits(m) \o DotCsv
\* ".hidden": skipped by extract_files
HiddenFile == <<46, 104, 105, 100, 100, 101, 110>>
\* "notes_7.csv": one integer run only
MalformedFile == <<110, 111, 116, 101, 115, 95, 55>> \o DotCsv
\* "1001_1_2.csv": three integer runs; sorts between the files of 1001
ThreeRunFile == <<49, 48, 48, 49, 95, 49, 95, 50>> \o DotCsv

---------------------------------------------------------------------------
(* AccountExpenseHistory *)

\* the end of the match of p = "[1-9]+[0-9]*" that starts at i (s[i] in [1-9]):
\* the greedy [1-9]+ then the greedy [0-9]* take the whole digit run
RECURSIVE MatchEnd(_, _)
MatchEnd(s, i) ==
    IF i + 1 <= Len(s) /\ IsDigit(s[i + 1]) THEN MatchEnd(s, i + 1) ELSE i

\* p.findall(s): the non-overlapping matches, left to right
RECURSIVE FindAllFrom(_, _)
FindAllFrom(s, i) ==
    IF i > Len(s) THEN <<>>
    ELSE IF IsNonZeroDigit(s[i])
         THEN <<SubSeq(s, i, MatchEnd(s, i))>> \o FindAllFrom(s, MatchEnd(s, i) + 1)
         ELSE FindAllFrom(s, i + 1)

p_findall(s) == FindAllFrom(s, 1)

\* the list reversed
RECURSIVE Reversed(_)
Reversed(q) == IF q = <<>> THEN <<>> ELSE Reversed(Tail(q)) \o <<Head(q)>>

\* extract_files sorting in descending order
extract_files_descending(dir) == Reversed(SortStrings({f \in dir : f[1] # 46}))

\* extract_files: the names not starting with ".", sorted
extract_files(dir) == SortStrings({f \in dir : f[1] # 46})

\* NextMonth without the roll-over from December to January
NextMonthNoRollover(ym) == <<ym[1], ym[2] + 1>>

\* one turn of "update y0,m0 to the next month"
NextMonth(ym) == IF ym[2] = 12 THEN <<ym[1] + 1, 1>> ELSE <<ym[1], ym[2] + 1>>

\* AuditLoop comparing the month only: "if (m != m0)"
RECURSIVE AuditLoopMonthOnly(_, _, _)
AuditLoopMonthOnly(fs, i, ym0) ==
    IF i > Len(fs) THEN [exit |-> FALSE, missing |-> FALSE]
    ELSE LET mo == p_findall(fs[i]) IN
         IF Len(mo) # 2 THEN [exit |-> TRUE, missing |-> FALSE]
         ELSE LET ym == <<ToInt(mo[1]), ToInt(mo[2])>>
                  expected == NextMonth(ym0)
              IN  IF ym[2] # expected[2] THEN [exit |-> FALSE, missing |-> TRUE]
                  ELSE AuditLoopMonthOnly(fs, i + 1, expected)

\* the loop of audit_for_missing_data over self.files[1:], from file i on,
\* with <<y0, m0>> = ym0
RECURSIVE AuditLoop(_, _, _)
AuditLoop(fs, i, ym0) ==
    IF i > Len(fs) THEN [exit |-> FALSE, missing |-> FALSE]
    ELSE LET mo == p_findall(fs[i]) IN
         IF Len(mo) # 2 THEN [exit |-> TRUE, missing |-> FALSE]
         ELSE LET ym == <<ToInt(mo[1]), ToInt(mo[2])>>
                  expected == NextMonth(ym0)
              IN  IF ym # expected THEN [exit |-> FALSE, missing |-> TRUE]
                  ELSE AuditLoop(fs, i + 1, expected)

\* audit_for_missing_data: exit is sys.exit(1), missing the returned flag
audit_for_missing_data(fs) ==
    IF fs = <<>> THEN [exit |-> FALSE, missing |-> TRUE]
    ELSE LET mo == p_findall(fs[1]) IN
         IF Len(mo) # 2 THEN [exit |-> TRUE, missing |-> FALSE]
         ELSE AuditLoop(fs, 2, <<ToInt(mo[1]), ToInt(mo[2])>>)

\* FormatDate without the zero padding of the month: "{}_{}".format(y, m)
FormatDateUnpadded(y, m) == Digits(y) \o <<95>> \o Digits(m)

\* "{}_{:02d}".format(y, m)
FormatDate(y, m) == Digits(y) \o <<95>> \o (IF m < 10 THEN <<48>> ELSE <<>>) \o Digits(m)

\* extract_dates leaving out the names that do not hold two integer runs
RECURSIVE extract_dates_skipping(_)
extract_dates_skipping(fs) ==
    IF fs = <<>> THEN [raised |-> FALSE, dates |-> <<>>]
    ELSE LET mo == p_findall(fs[1])
             rest == extract_dates_skipping(Tail(fs))
         IN  IF Len(mo) # 2 THEN rest
             ELSE [raised |-> FALSE,
                   dates  |-> <<FormatDate(ToInt(mo[1]), ToInt(mo[2]))>> \o rest.dates]

\* extract_dates: raised is the ValueError of unpacking y,m from other than
\* two matches
RECURSIVE extract_dates(_)
extract_dates(fs) ==
    IF fs = <<>> THEN [raised |-> FALSE, dates |-> <<>>]
    ELSE LET mo == p_findall(fs[1]) IN
         IF Len(mo) # 2 THEN [raised |-> TRUE, dates |-> <<>>]
         ELSE LET rest == extract_dates(Tail(fs)) IN
              [raised |-> rest.raised,
               dates  |-> IF rest.raised THEN <<>>
                          ELSE <<FormatDate(ToInt(mo[1]), ToInt(mo[2]))>> \o rest.dates]


\* the rows csv.reader yields for the i-th file of a directory holding the
\* given statement: <<date, amount, _, _, location>>, or <<>> for a blank line.
\* Amounts are stored negative in the files.
StatementRows(kind, i) ==
    IF kind = "dining"
    THEN << <<"d", -(10 * i + 5), "", "", "Foobar">>,
            <<>>,
            <<"d", -(10 * i + 3), "", "", "xyz">> >>
    ELSE << <<"d", -(10 * i + 2), "", "", "food">>,
            <<"d", -(10 * i + 7), "", "", "xyz">>,
            <<"d", -(10 * i + 1), "", "", "cabar">> >>

Statements == {"dining", "shopping"}

\* str.upper() on the locations of the statements
Upper(location) ==
    CASE location = "Foobar" -> "FOOBAR"
      [] location = "food"   -> "FOOD"
      [] location = "xyz"    -> "XYZ"
      [] location = "cabar"  -> "CABAR"
      [] OTHER               -> location

\* check_exclusion of the base class
check_exclusion(date, expense, location) == FALSE

\* the body of "for row in r": the month list after the rows from j on
RECURSIVE ParseRows(_, _)
ParseRows(rows, j) ==
    IF j > Len(rows) THEN <<>>
    ELSE LET row == rows[j] IN
         IF Len(row) = 0 THEN ParseRows(rows, j + 1)
         ELSE LET location == Upper(row[5])
                  expense  == (-1) * row[2]
              IN  IF check_exclusion(row[1], expense, location)
                  THEN ParseRows(rows, j + 1)
                  ELSE << <<expense, location>> >> \o ParseRows(rows, j + 1)

\* parse_and_aggregate_expenses: one list of (expense, location) per file
parse_and_aggregate_expenses(fs, kind) ==
    [i \in 1..Len(fs) |-> ParseRows(StatementRows(kind, i), 1)]

---------------------------------------------------------------------------
(* Directories *)

\* the sets of at most k elements of U
RECURSIVE SubsetsUpTo(_, _)
SubsetsUpTo(U, k) ==
    IF k = 0 THEN {{}}
    ELSE LET smaller == SubsetsUpTo(U, k - 1)
         IN  smaller \cup {s \cup {x} : s \in smaller, x \in U}

AccountYears == {999, 1000, 1001}
AccountMonths == {1, 2, 3, 4, 12}
\* "1000_13.csv" and "1000_14.csv": two integer runs, the second no month
NoSuchMonthFiles == {FileName(1000, 13, TRUE), FileName(1000, 14, TRUE)}
AccountFiles ==
    {FileName(y, m, pd) : y \in AccountYears, m \in AccountMonths, pd \in BOOLEAN}
        \cup {HiddenFile, MalformedFile, ThreeRunFile}
        \cup NoSuchMonthFiles

---------------------------------------------------------------------------
(* The state before any analyzer exists, and of no account under construction *)

NoFile == [exists |-> FALSE, lines |-> <<>>]
Labels == {"home", "work"}

AnalyzerIdle ==
    /\ config = <<>>
    /\ label = ""
    /\ intersect_account_dates = TRUE
    /\ accounts = <<>>
    /\ regex_category_dict = <<>>
    /\ category_limits = {}
    /\ categories = <<>>
    /\ self_dates = <<>>
    /\ data = <<>>
    /\ n_analyzers = 0

NoAccount ==
    /\ listing = {}
    /\ statement = "dining"
    /\ files = <<>>
    /\ is_missing_data = FALSE
    /\ dates = <<>>
    /\ expenses = <<>>
    /\ apc = "none"

---------------------------------------------------------------------------
(* AccountExpenseHistory.__init__, statement by statement *)

InitAccount ==
    /\ listing \in SubsetsUpTo(AccountFiles, MaxFiles)
    /\ statement \in Statements
    /\ files = <<>>
    /\ is_missing_data = FALSE
    /\ dates = <<>>
    /\ expenses = <<>>
    /\ apc = "extract_files"
    /\ AnalyzerIdle
    /\ pc = "none"
    /\ regex_collisions = NoFile
    /\ uncategorized = [l \in Labels |-> NoFile]

\* self.files = self.extract_files()
ExtractFiles ==
    /\ apc = "extract_files"
    /\ files' = extract_files(listing)
    /\ apc' = "audit"
    /\ UNCHANGED <<listing, statement, is_missing_data, dates, expenses>>
    /\ UNCHANGED <<analyzer_vars, file_vars>>

\* self.is_missing_data = self.audit_for_missing_data()
Audit ==
    /\ apc = "audit"
    /\ LET r == audit_for_missing_data(files) IN
       IF r.exit
       THEN apc' = "exit" /\ UNCHANGED is_missing_data
       ELSE apc' = "extract_dates" /\ is_missing_data' = r.missing
    /\ UNCHANGED <<listing, statement, files, dates, expenses>>
    /\ UNCHANGED <<analyzer_vars, file_vars>>

\* self.dates = self.extract_dates()
ExtractDates ==
    /\ apc = "extract_dates"
    /\ LET r == extract_dates(files) IN
       IF r.raised
       THEN apc' = "raised" /\ UNCHANGED dates
       ELSE apc' = "parse" /\ dates' = r.dates
    /\ UNCHANGED <<listing, statement, files, is_missing_data, expenses>>
    /\ UNCHANGED <<analyzer_vars, file_vars>>

\* self.expenses = self.parse_and_aggregate_expenses()
Parse ==
    /\ apc = "parse"
    /\ expenses' = parse_and_aggregate_expenses(files, statement)
    /\ apc' = "done"
    /\ UNCHANGED <<listing, statement, files, is_missing_data, dates>>
    /\ UNCHANGED <<analyzer_vars, file_vars>>

NextAccount == ExtractFiles \/ Audit \/ ExtractDates \/ Parse

SpecAccount == InitAccount /\ [][NextAccount]_vars

---------------------------------------------------------------------------
(* ExpenseHistoryAnalyzer: read_config *)

Range(q) == {q[i] : i \in 1..Len(q)}

\* target_total_limit handed to the constructor
TargetTotalLimit == 500

\* config_path handed to the constructor
ConfigPath == "Config/budget"

\* float(s) of a limit field: parsed is FALSE for the ValueError
ParseFloat(s) ==
    IF s = "25" THEN [parsed |-> TRUE, value |-> 25]
    ELSE [parsed |-> FALSE, value |-> 0]

\* d[k] = v on an insertion-ordered dict: a key already present keeps its
\* place and takes the new value (compiled patterns of one regex are equal)
DictSet(d, k, v) ==
    IF \E i \in 1..Len(d) : d[i][1] = k
    THEN [i \in 1..Len(d) |-> IF d[i][1] = k THEN <<k, v>> ELSE d[i]]
    ELSE Append(d, <<k, v>>)

\* f[k] = v on a dict kept as a function
FunSet(f, k, v) == [x \in (DOMAIN f) \cup {k} |-> IF x = k THEN v ELSE f[x]]

EmptyLimits == [x \in {} |-> 0]

\* the reserved-label test left out
IsReservedNever(category) == FALSE

\* "if category == 'Total' or category == 'Misc'"
IsReserved(category) == category = "Total" \/ category = "Misc"

\* the loop of read_config from line i on.  A line is the list of its
\* tab-separated fields.  fatal: the run ends, by sys.exit(1) for a reserved
\* category, by the uncaught IndexError of line[regex_idx] on a line of
\* fewer than three fields (the except clause names ValueError), or by the
\* uncaught ValueError of float() on the limit of a three-field line.
RECURSIVE ReadConfigLoop(_, _, _, _)
ReadConfigLoop(lines, i, dict, limits) ==
    IF i > Len(lines)
    THEN [fatal |-> "no", dict |-> dict,
          limits |-> FunSet(limits, "Total", TargetTotalLimit)]
    ELSE LET line == lines[i] IN
         IF Len(line) < 3
         THEN [fatal |-> "IndexError", dict |-> dict, limits |-> limits]
         ELSE LET regex    == line[3]
                  category == line[1]
              IN  IF IsReserved(category)
                  THEN [fatal |-> "exit", dict |-> dict, limits |-> limits]
                  ELSE IF Len(line) = 3
                       THEN IF ParseFloat(line[2]).parsed
                            THEN ReadConfigLoop(lines, i + 1,
                                     DictSet(dict, regex, category),
                                     FunSet(limits, category, ParseFloat(line[2]).value))
                            ELSE [fatal |-> "ValueError",
                                  dict |-> DictSet(dict, regex, category),
                                  limits |-> limits]
                       ELSE ReadConfigLoop(lines, i + 1,
                                DictSet(dict, regex, category), limits)

read_config(lines) == ReadConfigLoop(lines, 1, <<>>, EmptyLimits)

\* list(cats.values()) + ["Misc", "Total"]
CategoriesOf(dict) == [i \in 1..Len(dict) |-> dict[i][2]] \o <<"Misc", "Total">>

---------------------------------------------------------------------------
(* ExpenseHistoryAnalyzer: the date axis *)

RECURSIVE IntersectFrom(_, _, _)
IntersectFrom(accts, k, date_range) ==
    IF k > Len(accts) THEN date_range
    ELSE IntersectFrom(accts, k + 1, date_range \cap Range(accts[k].dates))

\* find_date_range_intersection keeping the first account's dates only
find_date_range_first_only(accts) == SortStrings(Range(accts[1].dates))

\* find_date_range_intersection; next() on no account raises StopIteration
find_date_range_intersection(accts) ==
    SortStrings(IntersectFrom(accts, 2, Range(accts[1].dates)))

\* find_date_range_union
find_date_range_union(accts) ==
    SortStrings(UNION {Range(accts[k].dates) : k \in 1..Len(accts)})

---------------------------------------------------------------------------
(* ExpenseHistoryAnalyzer: categorize_history *)

\* regex.search(location) for the regexes and locations of the model
regex_search(regex, location) ==
    CASE regex = "FOO.*" -> location \in {"FOOBAR", "FOOD"}
      [] regex = ".*BAR" -> location \in {"FOOBAR", "CABAR"}
      [] OTHER           -> FALSE

\* "for regex in self.regex_category_dict.keys(): if regex.search(location):
\*  cats.append(...)"
RECURSIVE MatchedCats(_, _, _)
MatchedCats(dict, i, location) ==
    IF i > Len(dict) THEN <<>>
    ELSE (IF regex_search(dict[i][1], location) THEN <<dict[i][2]>> ELSE <<>>)
             \o MatchedCats(dict, i + 1, location)

\* lst[idx] += expense
AddAt(lst, idx, expense) == [lst EXCEPT ![idx] = @ + expense]

\* Accumulate adding an unmatched expense to "Misc" only
AccumulateMiscWithoutTotal(category_expenses, cat, data_idx, expense) ==
    [c \in DOMAIN category_expenses |->
        IF c = cat \/ (c = "Total" /\ cat # "Misc")
        THEN AddAt(category_expenses[c], data_idx, expense)
        ELSE category_expenses[c]]

\* the two "+=" of categorize_history
Accumulate(category_expenses, cat, data_idx, expense) ==
    [c \in DOMAIN category_expenses |->
        IF c = cat \/ c = "Total"
        THEN AddAt(category_expenses[c], data_idx, expense)
        ELSE category_expenses[c]]

\* uncategorized_locations kept as a list: list.append
AddLocationToList(locations, location) == Append(locations, location)

\* uncategorized_locations.add(location): the set as the sequence of its
\* members, none twice (the order of iteration is chosen when it is written)
AddLocation(locations, location) ==
    IF location \in Range(locations) THEN locations ELSE Append(locations, location)

\* a collision entry of regex_collisions.txt
CollisionEntry(location, cats) ==
    [config |-> ConfigPath, location |-> location, categories |-> cats]

\* "for expense,location in month_data": st is [category_expenses,
\* collisions (the entries appended so far), uncategorized_locations]
RECURSIVE CategorizeMonth(_, _, _, _, _)
CategorizeMonth(dict, month_data, j, data_idx, st) ==
    IF j > Len(month_data) THEN st
    ELSE LET expense  == month_data[j][1]
             location == month_data[j][2]
             cats     == MatchedCats(dict, 1, location)
             cat      == IF cats = <<>> THEN "Misc" ELSE cats[1]
         IN  CategorizeMonth(dict, month_data, j + 1, data_idx,
                 [category_expenses |->
                      Accumulate(st.category_expenses, cat, data_idx, expense),
                  collisions |->
                      IF Len(cats) > 1
                      THEN Append(st.collisions, CollisionEntry(location, cats))
                      ELSE st.collisions,
                  uncategorized_locations |->
                      IF cats = <<>>
                      THEN AddLocation(st.uncategorized_locations, location)
                      ELSE st.uncategorized_locations])

\* "for a_idx in range(len(account.dates))" with the cursor data_idx over
\* the axis; raised is the IndexError of self.dates[data_idx] when the
\* cursor runs past the end of the axis
RECURSIVE WalkMonths(_, _, _, _, _, _)
WalkMonths(dict, axis, account, a_idx, data_idx, st) ==
    IF a_idx > Len(account.dates)
    THEN [raised |-> FALSE, result |-> st]
    ELSE LET date == account.dates[a_idx] IN
         IF date \notin Range(axis)
         THEN WalkMonths(dict, axis, account, a_idx + 1, data_idx, st)
         ELSE IF \E i \in data_idx..Len(axis) : axis[i] = date
              THEN LET idx == CHOOSE i \in data_idx..Len(axis) :
                                 /\ axis[i] = date
                                 /\ \A k \in data_idx..(i - 1) : axis[k] # date
                   IN  WalkMonths(dict, axis, account, a_idx + 1, idx,
                           CategorizeMonth(dict, account.expenses[a_idx], 1, idx, st))
              ELSE [raised |-> TRUE, result |-> st]

\* categorize_history up to its final write
categorize_history(dict, cats, axis, account) ==
    WalkMonths(dict, axis, account, 1, 1,
        [category_expenses |-> [c \in Range(cats) |-> [m \in 1..Len(axis) |-> 0]],
         collisions |-> <<>>,
         uncategorized_locations |-> <<>>])

---------------------------------------------------------------------------
(* The log files *)

\* a file left by an earlier run
StaleCollisions ==
    [exists |-> TRUE,
     lines |-> << [config |-> "earlier run", location |-> "OLD", categories |-> <<"Old">>] >>]
StaleReport ==
    [exists |-> TRUE, lines |-> << [kind |-> "location", text |-> "OLD"] >>]

HeaderLine == [kind |-> "header", text |-> ConfigPath]
LocationLine(location) == [kind |-> "location", text |-> location]

\* "if os.path.exists(...): os.remove(...)" of the class body
RemoveIfExists(file) == NoFile

\* open(path, "a") and the writes that follow
AppendLines(file, new_lines) == [exists |-> TRUE, lines |-> file.lines \o new_lines]

\* open(path, "w") and the writes that follow
WriteLines(file, new_lines) == [exists |-> TRUE, lines |-> new_lines]

\* the collision report opened for writing instead of appending
AppendCollisionsTruncating(file, entries) == WriteLines(file, entries)

\* 'with open(self.output_path_regex_collisions, "a") as out', once per
\* colliding record
AppendCollisions(file, entries) ==
    IF entries = <<>> THEN file ELSE AppendLines(file, entries)

\* 'f = open(self.output_path_uncategorized, "w")' and the header
OpenUncategorized(file) == WriteLines(file, <<HeaderLine>>)

\* 'with open(self.output_path_uncategorized, "a") as out' at the end of
\* categorize_history, the locations in the set's iteration order
WriteUncategorized(file, order) ==
    AppendLines(file, [i \in 1..Len(order) |-> LocationLine(order[i])])

\* the orders in which the members of a set of str can be iterated
Orderings(members) ==
    {[i \in 1..Len(members) |-> members[f[i]]] : f \in Permutations(1..Len(members))}

---------------------------------------------------------------------------
(* Accounts handed to analyzers *)

\* the AccountExpenseHistory built from a directory of well-formed names
AccountOf(dir, kind) ==
    LET fs == extract_files(dir) IN
    [dates    |-> extract_dates(fs).dates,
     expenses |-> parse_and_aggregate_expenses(fs, kind)]

\* the sequences over S of lo to hi elements
SeqsBetween(S, lo, hi) == UNION {[1..k -> S] : k \in lo..hi}

---------------------------------------------------------------------------
(* The run: the class body, then ExpenseHistoryAnalyzer.__init__ per analyzer *)

\* the class body of ExpenseHistoryAnalyzer, executed once at import
ClassBody ==
    /\ pc = "class_body"
    /\ regex_collisions' = RemoveIfExists(regex_collisions)
    /\ pc' = "idle"
    /\ UNCHANGED <<config, label, intersect_account_dates, accounts,
                   regex_category_dict, category_limits, categories,
                   self_dates, data, n_analyzers>>
    /\ UNCHANGED <<account_vars, uncategorized>>

\* ExpenseHistoryAnalyzer(config_path=..., label=..., **accounts) is called
NewAnalyzer(most, labels, configs, account_lists) ==
    /\ pc = "idle"
    /\ n_analyzers < most
    /\ label' \in labels
    /\ config' \in configs
    /\ intersect_account_dates' \in BOOLEAN
    /\ accounts' \in account_lists
    /\ regex_category_dict' = <<>>
    /\ category_limits' = EmptyLimits
    /\ categories' = <<>>
    /\ self_dates' = <<>>
    /\ data' = <<>>
    /\ pc' = "read_config"
    /\ UNCHANGED <<n_analyzers, account_vars, file_vars>>

\* cats, cat_limits = self.read_config() and self.categories
ReadConfig ==
    /\ pc = "read_config"
    /\ LET r == read_config(config) IN
       IF r.fatal # "no"
       THEN /\ pc' = "fatal"
            /\ UNCHANGED <<regex_category_dict, category_limits, categories>>
       ELSE /\ regex_category_dict' = r.dict
            /\ category_limits' = r.limits
            /\ categories' = CategoriesOf(r.dict)
            /\ pc' = "find_dates"
    /\ UNCHANGED <<config, label, intersect_account_dates, accounts,
                   self_dates, data, n_analyzers>>
    /\ UNCHANGED <<account_vars, file_vars>>

\* self.dates = self.find_date_range_intersection() / _union()
FindDates ==
    /\ pc = "find_dates"
    /\ IF intersect_account_dates
       THEN IF accounts = <<>>
            THEN pc' = "fatal" /\ UNCHANGED self_dates
            ELSE /\ self_dates' = find_date_range_intersection(accounts)
                 /\ pc' = "open_uncategorized"
       ELSE /\ self_dates' = find_date_range_union(accounts)
            /\ pc' = "open_uncategorized"
    /\ UNCHANGED <<config, label, intersect_account_dates, accounts,
                   regex_category_dict, category_limits, categories,
                   data, n_analyzers>>
    /\ UNCHANGED <<account_vars, file_vars>>

\* the uncategorized-locations report is opened with "w" and gets its header
OpenReport ==
    /\ pc = "open_uncategorized"
    /\ uncategorized' = [uncategorized EXCEPT ![label] = OpenUncategorized(@)]
    /\ pc' = "categorize"
    /\ UNCHANGED <<analyzer_vars_but_pc, account_vars, regex_collisions>>

\* d = self.categorize_history(account) for the next account
Categorize ==
    /\ pc = "categorize"
    /\ Len(data) < Len(accounts)
    /\ LET r == categorize_history(regex_category_dict, categories, self_dates,
                                   accounts[Len(data) + 1])
       IN  /\ regex_collisions' = AppendCollisions(regex_collisions, r.result.collisions)
           /\ IF r.raised
              THEN /\ pc' = "fatal"
                   /\ UNCHANGED <<uncategorized, data>>
              ELSE /\ \E order \in Orderings(r.result.uncategorized_locations) :
                         uncategorized' =
                             [uncategorized EXCEPT ![label] = WriteUncategorized(@, order)]
                   /\ data' = Append(data, r.result.category_expenses)
                   /\ pc' = "categorize"
    /\ UNCHANGED <<config, label, intersect_account_dates, accounts,
                   regex_category_dict, category_limits, categories,
                   self_dates, n_analyzers>>
    /\ UNCHANGED account_vars

\* self.data = data: the constructor returns
Finish ==
    /\ pc = "categorize"
    /\ Len(data) = Len(accounts)
    /\ pc' = "idle"
    /\ n_analyzers' = n_analyzers + 1
    /\ UNCHANGED <<config, label, intersect_account_dates, accounts,
                   regex_category_dict, category_limits, categories,
                   self_dates, data>>
    /\ UNCHANGED <<account_vars, file_vars>>

---------------------------------------------------------------------------
(* Specifications *)

\* the analyzer object right after read_config of an empty config.txt
ConfigRead(lines) ==
    /\ config = lines
    /\ regex_category_dict = read_config(lines).dict
    /\ category_limits = read_config(lines).limits
    /\ categories = CategoriesOf(read_config(lines).dict)

\* ---- the date reconciler alone, over the accounts of small directories
AxisFiles ==
    {FileName(999, 12, TRUE), FileName(1000, 1, TRUE), FileName(1000, 1, FALSE),
     FileName(1000, 2, TRUE), FileName(1000, 12, TRUE)}

AxisAccounts == {AccountOf(dir, "dining") : dir \in SubsetsUpTo(AxisFiles, MaxAxisFiles)}

InitAxis ==
    /\ NoAccount
    /\ ConfigRead(<<>>)
    /\ label = "home"
    /\ intersect_account_dates \in BOOLEAN
    /\ accounts \in SeqsBetween(AxisAccounts, 1, MaxAccounts)
    /\ self_dates = <<>>
    /\ data = <<>>
    /\ pc = "find_dates"
    /\ n_analyzers = 0
    /\ regex_collisions = NoFile
    /\ uncategorized = [l \in Labels |-> NoFile]

NextAxis == FindDates

SpecAxis == InitAxis /\ [][NextAxis]_vars

\* ---- read_config alone, over the lines of small config files
ConfigCategories == {"Food", "Bar", "Total", "Misc"}
ConfigRegexes == {"FOO.*", ".*BAR"}
ConfigLines ==
    {<<c>> : c \in ConfigCategories}
        \cup {<<c, r>> : c \in ConfigCategories, r \in ConfigRegexes}
        \cup {<<c, l, r>> : c \in ConfigCategories, l \in {"25", ""}, r \in ConfigRegexes}
        \cup {<<c, "25", r, "note">> : c \in ConfigCategories, r \in ConfigRegexes}

InitConfig ==
    /\ NoAccount
    /\ config \in SeqsBetween(ConfigLines, 0, MaxLines)
    /\ label = "home"
    /\ intersect_account_dates = TRUE
    /\ accounts = <<>>
    /\ regex_category_dict = <<>>
    /\ category_limits = EmptyLimits
    /\ categories = <<>>
    /\ self_dates = <<>>
    /\ data = <<>>
    /\ pc = "read_config"
    /\ n_analyzers = 0
    /\ regex_collisions = NoFile
    /\ uncategorized = [l \in Labels |-> NoFile]

NextConfig == ReadConfig

SpecConfig == InitConfig /\ [][NextConfig]_vars

\* ---- one analyzer, from the import of the module to the end of __init__
AnalyzerLines ==
    { <<"Food", "25", "FOO.*">>, <<"Bar", "25", ".*BAR">>, <<"Bar", "25", "FOO.*">>,
      <<"Total", "25", ".*BAR">>, <<"Misc", "25", "FOO.*">>, <<"Food", "FOO.*">> }

AnalyzerConfigs == SeqsBetween(AnalyzerLines, 0, MaxLines)

\* two accounts of contiguous months, one whose unpadded names sort December
\* before February, one with two files for the same month
AnalyzerAccounts ==
    { AccountOf({FileName(1000, 1, TRUE), FileName(1000, 2, TRUE)}, "dining"),
      AccountOf({FileName(1000, 2, TRUE), FileName(1000, 3, TRUE)}, "shopping"),
      AccountOf({FileName(1000, 12, FALSE), FileName(1000, 2, FALSE)}, "dining"),
      AccountOf({FileName(1000, 1, TRUE), FileName(1000, 1, FALSE)}, "shopping") }

InitRun ==
    /\ NoAccount
    /\ AnalyzerIdle
    /\ pc = "class_body"
    /\ regex_collisions \in {NoFile, StaleCollisions}
    /\ \/ uncategorized = [l \in Labels |-> NoFile]
       \/ uncategorized = [l \in Labels |-> StaleReport]

NextAnalyzer ==
    \/ ClassBody
    \/ NewAnalyzer(1, {"home"}, AnalyzerConfigs,
                   SeqsBetween(AnalyzerAccounts, 0, MaxAccounts))
    \/ ReadConfig
    \/ FindDates
    \/ OpenReport
    \/ Categorize
    \/ Finish

SpecAnalyzer == InitRun /\ [][NextAnalyzer]_vars

\* ---- a run constructing several analyzers
RunConfigs == { << <<"Food", "25", "FOO.*">>, <<"Bar", "25", ".*BAR">> >>,
                << <<"Food", "25", "FOO.*">> >> }

RunAccounts ==
    { AccountOf({FileName(1000, 1, TRUE), FileName(1000, 2, TRUE)}, "dining"),
      AccountOf({FileName(1000, 2, TRUE), FileName(1000, 3, TRUE)}, "shopping") }

NextRun ==
    \/ ClassBody
    \/ NewAnalyzer(MaxAnalyzers, Labels, RunConfigs,
                   SeqsBetween(RunAccounts, 1, MaxAccounts))
    \/ ReadConfig
    \/ FindDates
    \/ OpenReport
    \/ Categorize
    \/ Finish

SpecRun == InitRun /\ [][NextRun]_vars

---------------------------------------------------------------------------
(* Month keys, read off the names and dates without the program's regex *)

MonthKeys == AccountYears \X (1..14)

\* the (year, month) a well-formed file name of the model stands for
KeyOfFile(f) ==
    CHOOSE ym \in MonthKeys : \E pd \in BOOLEAN : f = FileName(ym[1], ym[2], pd)

\* the (year, month) a "yyyy_mm" date stands for
KeyOfDate(d) == CHOOSE ym \in MonthKeys : d = FormatDate(ym[1], ym[2])

\* the calendar month after ym, December rolling over to January
CalendarSuccessor(ym) == IF ym[2] = 12 THEN <<ym[1] + 1, 1>> ELSE <<ym[1], ym[2] + 1>>

\* chronological order of (year, month)
Earlier(a, b) == a[1] < b[1] \/ (a[1] = b[1] /\ a[2] < b[2])

WellFormed(fs) == \A i \in 1..Len(fs) : Len(p_findall(fs[i])) = 2

AuditDone == apc \in {"extract_dates", "parse", "done", "raised"}

\* some file is not the calendar successor of the file before it
HasGap(fs) ==
    \E i \in 2..Len(fs) : KeyOfFile(fs[i]) # CalendarSuccessor(KeyOfFile(fs[i - 1]))

\* C3: for a sorted list of well-formed file names, audit_for_missing_data
\* returns true exactly when the list is empty or some file's (year, month)
\* is not the calendar successor of the preceding file's.
C3_AuditIffEmptyOrGap ==
    (AuditDone /\ WellFormed(files)) =>
        (is_missing_data <=> (files = <<>> \/ HasGap(files)))

\* C3 witness: [1000_01, 1000_02, 1000_04] has been audited and is flagged
C3_Witness ==
    /\ AuditDone
    /\ files = <<FileName(1000, 1, TRUE), FileName(1000, 2, TRUE), FileName(1000, 4, TRUE)>>
    /\ is_missing_data

\* some name of the directory that extract_files keeps does not hold exactly
\* two runs of p
HasMalformedName == \E f \in listing : f[1] # 46 /\ Len(p_findall(f)) # 2

\* C11: when a non-hidden file name of the data directory does not hold
\* exactly two positive-integer runs, the construction never gets past
\* extract_dates: it is still before it or it has aborted (sys.exit in the
\* audit, or the ValueError of extract_dates when the audit returned at a
\* gap before the name), and neither dates nor expenses were produced.
C11_MalformedNameAbortsConstruction ==
    HasMalformedName =>
        /\ apc \in {"extract_files", "audit", "extract_dates", "exit", "raised"}
        /\ (apc = "extract_dates" => is_missing_data)
        /\ dates = <<>>
        /\ expenses = <<>>

\* C11 witness: two well-formed names with a month gap between them, then
\* the three-run name; the audit returned at the gap and extract_dates raised
C11_Witness ==
    /\ apc = "raised"
    /\ is_missing_data
    /\ Len(files) = 3
    /\ WellFormed(<<files[1], files[2]>>)
    /\ files[3] = ThreeRunFile

StrictlyIncreasing(ds) ==
    \A i \in 1..(Len(ds) - 1) : Earlier(KeyOfDate(ds[i]), KeyOfDate(ds[i + 1]))

\* every file is "<year>_<two-digit month>.csv" and the years are equally long
FixedWidthNames(fs) ==
    /\ \A i \in 1..Len(fs) :
          \E ym \in MonthKeys : fs[i] = FileName(ym[1], ym[2], TRUE)
    /\ \A i, j \in 1..Len(fs) :
          Len(Digits(KeyOfFile(fs[i])[1])) = Len(Digits(KeyOfFile(fs[j])[1]))

---------------------------------------------------------------------------
(* The date axis *)

AxisComputed == pc = "open_uncategorized"

AccountDates == UNION {Range(accounts[k].dates) : k \in 1..Len(accounts)}

NoDuplicates(q) == \A i, j \in 1..Len(q) : i # j => q[i] # q[j]

\* C4: with intersect_account_dates the axis holds a month iff every account
\* has it, without it iff some account has it; the axis holds no month twice.
C4_AxisIsIntersectionOrUnion ==
    AxisComputed =>
        /\ \A d \in AccountDates \cup Range(self_dates) :
              d \in Range(self_dates) <=>
                  IF intersect_account_dates
                  THEN \A k \in 1..Len(accounts) : d \in Range(accounts[k].dates)
                  ELSE \E k \in 1..Len(accounts) : d \in Range(accounts[k].dates)
        /\ NoDuplicates(self_dates)

\* C4 witness: two accounts, one with the same month twice, share one month
\* and differ in another; the intersection has been computed
C4_Witness ==
    /\ AxisComputed
    /\ intersect_account_dates
    /\ Len(accounts) = 2
    /\ ~NoDuplicates(accounts[1].dates)
    /\ Len(self_dates) = 1
    /\ Range(accounts[2].dates) \ Range(accounts[1].dates) # {}

Chronological(q) ==
    \A i \in 1..(Len(q) - 1) : Earlier(KeyOfDate(q[i]), KeyOfDate(q[i + 1]))

YearWidth(d) == Len(Digits(KeyOfDate(d)[1]))

---------------------------------------------------------------------------
(* The configuration loader *)

ConfigLoaded == pc \in {"find_dates", "fatal"}

\* the category field is a reserved label
ReservedLine(line) == line[1] \in {"Total", "Misc"}

\* the limit field of every three-field line is a decimal number
LimitsAreDecimal == \A i \in 1..Len(config) : Len(config[i]) = 3 => config[i][2] = "25"

\* C6 as stated: read_config fails only on a line of fewer than two fields or
\* with a reserved category; a "category, regex" line registers the rule and
\* no limit, a "category, limit, regex" line the rule and the limit.
C6_TwoFieldLinesAccepted ==
    (ConfigLoaded /\ LimitsAreDecimal) =>
        /\ pc = "fatal" <=>
              \E i \in 1..Len(config) : Len(config[i]) < 2 \/ ReservedLine(config[i])
        /\ pc = "find_dates" =>
              \A i \in 1..Len(config) :
                  /\ Len(config[i]) = 2 =>
                        \E e \in 1..Len(regex_category_dict) :
                            regex_category_dict[e][1] = config[i][2]
                  /\ Len(config[i]) = 3 =>
                        /\ \E e \in 1..Len(regex_category_dict) :
                              regex_category_dict[e][1] = config[i][3]
                        /\ config[i][1] \in DOMAIN category_limits
                        /\ category_limits[config[i][1]] = 25

---------------------------------------------------------------------------
(* One analyzer *)

RECURSIVE SumFun(_, _)
SumFun(f, S) ==
    IF S = {} THEN 0
    ELSE LET x == CHOOSE x \in S : TRUE IN f[x] + SumFun(f, S \ {x})

\* the amounts of a month's records that satisfy Keep(location)
MonthSum(month_data, Keep(_)) ==
    SumFun([j \in 1..Len(month_data) |->
               IF Keep(month_data[j][2]) THEN month_data[j][1] ELSE 0],
           1..Len(month_data))

\* the amounts of the account's records of month date that satisfy Keep
DateSum(account, date, Keep(_)) ==
    SumFun([a \in 1..Len(account.dates) |->
               IF account.dates[a] = date THEN MonthSum(account.expenses[a], Keep) ELSE 0],
           1..Len(account.dates))

AnyLocation(location) == TRUE

\* C1: in every aggregate categorize_history returned, at every axis index
\* the buckets of the user categories and "Misc" add up to "Total", which is
\* the sum of the account's records of that month.
C1_TotalIsSumOfBuckets ==
    \A k \in 1..Len(data) : \A m \in 1..Len(self_dates) :
        LET buckets == Range(categories) \ {"Total"} IN
        /\ DOMAIN data[k] = buckets \cup {"Total"}
        /\ SumFun([c \in buckets |-> data[k][c][m]], buckets) = data[k]["Total"][m]
        /\ data[k]["Total"][m] = DateSum(accounts[k], self_dates[m], AnyLocation)

\* C1 witness: an aggregate with a user bucket and "Misc" both filled in one month
C1_Witness ==
    \E k \in 1..Len(data) : \E m \in 1..Len(self_dates) :
        /\ "Food" \in DOMAIN data[k]
        /\ data[k]["Food"][m] > 0
        /\ data[k]["Misc"][m] > 0
        /\ data[k]["Total"][m] > data[k]["Food"][m]

\* the state holds the aggregates of the first Len(data) accounts
Categorizing == pc = "categorize" \/ (pc = "idle" /\ n_analyzers > 0)

\* the categories of the configuration lines whose regex matches, in line order
RECURSIVE LinesMatching(_, _)
LinesMatching(i, location) ==
    IF i > Len(config) THEN <<>>
    ELSE (IF regex_search(config[i][3], location) THEN <<config[i][1]>> ELSE <<>>)
             \o LinesMatching(i + 1, location)

FirstLineCategory(location) ==
    IF LinesMatching(1, location) = <<>> THEN "Misc" ELSE LinesMatching(1, location)[1]

\* one collision entry per record of the month from j on that matches more
\* than one configuration line
RECURSIVE MonthCollisions(_, _)
MonthCollisions(month_data, j) ==
    IF j > Len(month_data) THEN <<>>
    ELSE (IF Len(LinesMatching(1, month_data[j][2])) > 1
          THEN <<CollisionEntry(month_data[j][2], LinesMatching(1, month_data[j][2]))>>
          ELSE <<>>)
             \o MonthCollisions(month_data, j + 1)

\* ... of the account's months on the axis, from month a on
RECURSIVE AccountCollisions(_, _)
AccountCollisions(account, a) ==
    IF a > Len(account.dates) THEN <<>>
    ELSE (IF account.dates[a] \in Range(self_dates)
          THEN MonthCollisions(account.expenses[a], 1) ELSE <<>>)
             \o AccountCollisions(account, a + 1)

\* ... of the accounts categorized so far, from account k on
RECURSIVE RunCollisions(_)
RunCollisions(k) ==
    IF k > Len(data) THEN <<>>
    ELSE AccountCollisions(accounts[k], 1) \o RunCollisions(k + 1)

\* C2 as stated: a record matching the regex of more than one configuration
\* line appends one collision entry naming every matched category in line
\* order and is added to the bucket of the first matching line; other records
\* append no entry.  (Stated for config files that repeat no line.)
C2_FirstLineWinsAllLinesReported ==
    (Categorizing /\ NoDuplicates(config)) =>
        /\ regex_collisions.lines = RunCollisions(1)
        /\ \A k \in 1..Len(data) : \A m \in 1..Len(self_dates) :
              \A c \in {config[i][1] : i \in 1..Len(config)} \cup {"Misc"} :
                  LET InC(location) == FirstLineCategory(location) = c IN
                  /\ c \in DOMAIN data[k]
                  /\ data[k][c][m] = DateSum(accounts[k], self_dates[m], InC)

\* some configuration line has the category "Total" or "Misc"
HasReservedLine == \E i \in 1..Len(config) : ReservedLine(config[i])

\* C5: with a reserved category on any configuration line the construction
\* ends fatally in read_config: the axis is not computed, the report is
\* neither truncated nor written, no collision entry is appended and no
\* account is categorized.
C5_ReservedLabelFatalBeforeAnyEffect ==
    HasReservedLine =>
        /\ pc \in {"read_config", "fatal"}
        /\ self_dates = <<>>
        /\ data = <<>>
        /\ uncategorized[label] \in {NoFile, StaleReport}
        /\ regex_collisions = NoFile

\* C5 witness: the construction has ended fatally on a reserved category in
\* the second line, with accounts to categorize and an old report in place
C5_Witness ==
    /\ pc = "fatal"
    /\ Len(config) = 2
    /\ ~ReservedLine(config[1])
    /\ ReservedLine(config[2])
    /\ Len(accounts) = 2
    /\ uncategorized[label] = StaleReport

\* how often the report of label l lists the location
ReportCount(l, location) ==
    Cardinality({i \in 1..Len(uncategorized[l].lines) :
                    uncategorized[l].lines[i] = LocationLine(location)})

Locations == {"FOOBAR", "FOOD", "XYZ", "CABAR"}

\* the location is in a month of the account that is on the axis
Processed(account, location) ==
    \E a \in 1..Len(account.dates) :
        /\ account.dates[a] \in Range(self_dates)
        /\ \E j \in 1..Len(account.expenses[a]) : account.expenses[a][j][2] = location

\* C7 as stated: the report of a constructed analyzer lists no location twice.
C7_NoLocationTwice ==
    Categorizing => \A location \in Locations : ReportCount(label, location) <= 1

\* C7 amended: the report lists a location once for every categorized account
\* that has it in a month on the axis with no rule matching it: never twice
\* for one account, once per account for several.
C7_OncePerAccount ==
    Categorizing =>
        \A location \in Locations :
            ReportCount(label, location) =
                Cardinality({k \in 1..Len(data) :
                                /\ Processed(accounts[k], location)
                                /\ LinesMatching(1, location) = <<>>})

\* C7 witness: a constructed analyzer of two accounts; an unmatched location
\* occurs in two months of the first one and also in the second one
C7_Witness ==
    /\ pc = "idle"
    /\ n_analyzers = 1
    /\ Len(data) = 2
    /\ \E location \in Locations :
          /\ ReportCount(label, location) = 2
          /\ Len(self_dates) >= 2
          /\ \A m \in 1..2 :
                \E a \in 1..Len(accounts[1].dates) :
                    /\ accounts[1].dates[a] = self_dates[m]
                    /\ \E j \in 1..Len(accounts[1].expenses[a]) :
                          accounts[1].expenses[a][j][2] = location

---------------------------------------------------------------------------
(* The log files over a run *)

IsPrefix(a, b) == Len(a) <= Len(b) /\ SubSeq(b, 1, Len(a)) = a

\* the report of label l was written in this run: it starts with a header
RunReport(l) ==
    /\ uncategorized[l].lines # <<>>
    /\ uncategorized[l].lines[1] = HeaderLine

\* the collision report is reset by the class body, before any analyzer
\* exists, and from then on only grows
CollisionsResetOnceThenGrow ==
    /\ [](pc = "class_body" => (n_analyzers = 0 /\ accounts = <<>> /\ data = <<>>))
    /\ [][IF pc = "class_body"
          THEN regex_collisions' = NoFile /\ pc' # "class_body"
          ELSE pc' # "class_body"
                 /\ IsPrefix(regex_collisions.lines, regex_collisions'.lines)]_vars

\* the analyzer under construction truncates its report once, before its
\* first account is categorized
OwnReportTruncatedOnce ==
    /\ [](pc = "categorize" => RunReport(label))
    /\ [][pc = "open_uncategorized" =>
              /\ data = <<>>
              /\ uncategorized'[label].lines = <<HeaderLine>>
              /\ pc' = "categorize"]_vars
    /\ [][pc' = "open_uncategorized" => pc = "find_dates"]_vars

\* C10 as stated: the collision report is reset once, before any account is
\* categorized, and then only grows; each analyzer's report is truncated once,
\* at its construction, and then only appended to: no report written in the
\* run loses an entry when another analyzer is constructed.
C10_NoReportEntryErased ==
    /\ CollisionsResetOnceThenGrow
    /\ OwnReportTruncatedOnce
    /\ [][\A l \in Labels :
             \/ IsPrefix(uncategorized[l].lines, uncategorized'[l].lines)
             \/ pc = "open_uncategorized" /\ l = label /\ ~RunReport(l)]_vars

\* C10 amended: as stated, but a report keeps its entries only while no later
\* analyzer is constructed with the same label: every step either extends a
\* report or is the truncation by the analyzer under construction of the
\* report that carries its own label.
C10_ReportErasedOnlyByTheSameLabel ==
    /\ CollisionsResetOnceThenGrow
    /\ OwnReportTruncatedOnce
    /\ [][\A l \in Labels :
             \/ IsPrefix(uncategorized[l].lines, uncategorized'[l].lines)
             \/ pc = "open_uncategorized" /\ l = label]_vars

\* C10 witness: two analyzers with different labels have been constructed;
\* both appended collision entries and each report lists locations
C10_Witness ==
    /\ pc = "idle"
    /\ n_analyzers = 2
    /\ Len(regex_collisions.lines) >= 4
    /\ \A l \in Labels : RunReport(l) /\ Len(uncategorized[l].lines) >= 2

---------------------------------------------------------------------------
(* Accounts the audit found complete *)

IsCalendarMonth(ym) == ym[2] \in 1..12

\* the dates are there, one per month list, each a calendar month followed
\* by the calendar month after it
CalendarSuccessive(ds, es) ==
    /\ ds # <<>>
    /\ Len(ds) = Len(es)
    /\ \A i \in 1..(Len(ds) - 1) :
          /\ IsCalendarMonth(KeyOfDate(ds[i]))
          /\ IsCalendarMonth(KeyOfDate(ds[i + 1]))
          /\ KeyOfDate(ds[i + 1]) = CalendarSuccessor(KeyOfDate(ds[i]))

\* C13 as stated: whenever construction completes with is_missing_data =
\* False, dates is non-empty, as long as expenses, and each consecutive pair
\* of dates denotes calendar-successive months.
C13_CompleteMeansCalendarSuccessive ==
    (apc = "done" /\ ~is_missing_data) => CalendarSuccessive(dates, expenses)

\* C13 amended: the same, for directories in which the second integer run of
\* every file name is a month number, 1 to 12.
C13_CompleteMeansSuccessiveForMonthNumbers ==
    (/\ apc = "done"
     /\ ~is_missing_data
     /\ \A i \in 1..Len(files) : IsCalendarMonth(KeyOfFile(files[i])))
        => CalendarSuccessive(dates, expenses)

\* C13 witness: a complete account of three months from December 1000 on
C13_Witness ==
    /\ apc = "done"
    /\ ~is_missing_data
    /\ Len(dates) = 3
    /\ dates[1] = FormatDate(1000, 12)
    /\ dates[3] = FormatDate(1001, 2)

---------------------------------------------------------------------------
(* The cursor of categorize_history over the date axis *)

\* every aggregate built so far holds, at each axis index, the records of the
\* account's months with that date, and nothing of the months off the axis
AccumulatedAtAxisIndex ==
    \A k \in 1..Len(data) : \A m \in 1..Len(self_dates) :
        data[k]["Total"][m] = DateSum(accounts[k], self_dates[m], AnyLocation)

\* a call of categorize_history ends in the IndexError of self.dates[data_idx]
CursorOverrun == pc = "categorize" /\ pc' = "fatal"

\* C12: for every account built from a data directory and every date axis
\* reconciled over accounts containing it, categorize_history returns with
\* the cursor never past the last axis index, and the records of each month
\* on the axis are accumulated at the index of that month.
C12_CursorNeverPastAxis ==
    [](Categorizing => AccumulatedAtAxisIndex) /\ [][~CursorOverrun]_vars

============================================================================
